---------------------------- MODULE Spec2Model ----------------------------
(***************************************************************************)
(* Periscopio Radar Compras Publicas: the dashboard controller of app.js.  *)
(*                                                                         *)
(* The page fetches data/meta.json and data/opportunities.json, keeps the  *)
(* module state DATA, META, VIEW and SORT, and reacts to two user inputs:  *)
(* typing in the search box and clicking a table header.                   *)
(*                                                                         *)
(* Representation                                                          *)
(*  - a JS string is a sequence of one-character strings; a missing or     *)
(*    empty string field is << >> (the code reads both through `x || ""`   *)
(*    or `x ?? ""`, which do not tell them apart);                         *)
(*  - an optional number is << >> (missing/null) or <<n>>;                 *)
(*  - a date field is << >> (missing or unparsable: toDateNum gives 0 for  *)
(*    both) or <<t>> with t the epoch value Date parses from it;           *)
(*  - the row objects of the parsed payload live in OBJ; DATA and VIEW are *)
(*    arrays of references (indices into OBJ), so that two rows with the   *)
(*    same field values remain two objects;                                *)
(*  - the table body and the header are modelled by their text content.    *)
(***************************************************************************)
EXTENDS Integers, Sequences, FiniteSets, TLC

\* Largest number of rows in data/opportunities.json.
MaxRows == 3

VARIABLES
    pc,             \* position of main(): await_meta, await_opps, ready, failed
    fetches,        \* the paths fetch() was called with, in order
    META,           \* let META
    OBJ,            \* the row objects created by r.json()
    DATA,           \* let DATA: the array of row references
    VIEW,           \* let VIEW: the array of row references
    sameArray,      \* TRUE iff VIEW and DATA reference the same array object
    SORT,           \* let SORT = { key, dir }
    searchText,     \* document.getElementById("search").value
    sortListeners,  \* click listeners attached to the sortable headers
    searchListener, \* input listener attached to the search box
    tbody,          \* content of #tbody
    header,         \* content of #counts
    lastEvent       \* the event whose handler ran last

vars == <<pc, fetches, META, OBJ, DATA, VIEW, sameArray, SORT, searchText,
          sortListeners, searchListener, tbody, header, lastEvent>>

-----------------------------------------------------------------------------
(* Strings *)

\* String.prototype.toLowerCase on one character of the model's alphabet.
LowerChar(c) ==
    CASE c = "A" -> "a"
      [] c = "B" -> "b"
      [] c = "C" -> "c"
      [] c = "L" -> "l"
      [] c = "Á" -> "á"
      [] OTHER -> c

toLowerCase(s) == [i \in DOMAIN s |-> LowerChar(s[i])]

\* String.prototype.trim: drops leading and trailing white space.
RECURSIVE trimStart(_)
trimStart(s) ==
    IF s # << >> /\ Head(s) = " " THEN trimStart(Tail(s)) ELSE s

RECURSIVE trimEnd(_)
trimEnd(s) ==
    IF s # << >> /\ s[Len(s)] = " " THEN trimEnd(SubSeq(s, 1, Len(s) - 1)) ELSE s

trim(s) == trimEnd(trimStart(s))

\* String.prototype.includes: q occurs in s as a contiguous substring.
includes(s, q) ==
    \E i \in 0..(Len(s) - Len(q)) : SubSeq(s, i + 1, i + Len(q)) = q

\* The collation order of the characters the model uses (Spanish, lower case).
Collation ==
    <<" ", "a", "á", "b", "c", "g", "i", "l", "m", "n", "o", "ó", "p", "r", "t">>

Rank(c) == CHOOSE i \in DOMAIN Collation : Collation[i] = c

\* String.prototype.localeCompare(other, "es") on case-folded strings:
\* negative, zero or positive, character by character in collation order.
RECURSIVE localeCompare(_, _)
localeCompare(a, b) ==
    IF a = << >> /\ b = << >> THEN 0
    ELSE IF a = << >> THEN -1
    ELSE IF b = << >> THEN 1
    ELSE IF Rank(Head(a)) < Rank(Head(b)) THEN -1
    ELSE IF Rank(Head(a)) > Rank(Head(b)) THEN 1
    ELSE localeCompare(Tail(a), Tail(b))

-----------------------------------------------------------------------------
(* Helpers de sort robustos *)

toNum(x) == IF x = << >> THEN 0 ELSE x[1]

toStr(x) == toLowerCase(x)

toBoolNum(x) == IF x THEN 1 ELSE 0

toDateNum(iso) == IF iso = << >> THEN 0 ELSE iso[1]

getSourceLabel(src) ==
    IF src = "compra_agil"
    THEN <<"C", "o", "m", "p", "r", "a", " ", "Á", "g", "i", "l">>
    ELSE <<"L", "i", "c", "i", "t", "a", "c", "i", "ó", "n">>

-----------------------------------------------------------------------------
(* The opportunity objects and metadata the two JSON documents may hold *)

Opp(id, title, buyer, amount, score, source, published, qend, close, reviewed) ==
    [id |-> id, title |-> title, buyer |-> buyer, amount_clp |-> amount,
     score |-> score, source |-> source, published_at |-> published,
     questions_end_at |-> qend, close_at |-> close, reviewed |-> reviewed]

\* Rows 1-3 are the scenario of scores [5,2,5], ids [b,a,c]; row 4 shares
\* score, published date and case-folded id with row 1; row 5 has no id and
\* a published date.
Opportunities ==
    { Opp(<<"b">>, <<"A", "b">>, << >>,          <<10>>, <<5>>, "licitacion",  << >>, << >>, <<3>>, TRUE),
      Opp(<<"a">>, <<"b">>,      <<"c">>,        << >>,  <<2>>, "compra_agil", << >>, << >>, <<1>>, FALSE),
      Opp(<<"c">>, << >>,        <<"A", "b">>,   <<10>>, <<5>>, "",            << >>, <<4>>, <<3>>, FALSE),
      Opp(<<"B">>, <<"c">>,      <<"a">>,        <<7>>,  <<5>>, "compra_agil", << >>, << >>, << >>, TRUE),
      Opp(<< >>,   <<"a", " ", "b">>, <<"b">>,   <<7>>,  <<5>>, "licitacion",  <<2>>, <<4>>, <<1>>, FALSE) }

\* data/opportunities.json: an array of at most MaxRows opportunity objects,
\* no two of them with the same values in every field.
Payloads ==
    UNION { { p \in [1..n -> Opportunities] :
                \A i, j \in 1..n : p[i] = p[j] => i = j } : n \in 0..MaxRows }

\* META.counts with any subset of the precomputed fields present.
Metas ==
    [licitaciones_total : {<< >>, <<2>>},
     compra_agil_total  : {<< >>, <<1>>},
     total_current      : {<< >>, <<4>>}]

\* Values the user may leave in the search box.
Texts ==
    { << >>, <<" ">>, <<"a", "b">>, <<"A", " ">> }

\* HTTP statuses for which r.ok is false.
FailStatuses == {404, 500}

-----------------------------------------------------------------------------
(* Search + Sort *)

\* searchMatches without the case folding of the row's text.
searchMatches_noFold(o, q) ==
    includes(o.id \o <<" ">> \o o.title \o <<" ">> \o o.buyer, q)

\* The filter callback of applySearch: the row's id, title and buyer joined
\* by single spaces, case-folded, contain the query q.
searchMatches(o, q) ==
    includes(toLowerCase(o.id \o <<" ">> \o o.title \o <<" ">> \o o.buyer), q)

\* Array.prototype.filter over an array of row references: a new array with
\* the references that satisfy the callback, in the order of arr.
RECURSIVE filterRows(_, _, _)
filterRows(arr, objs, q) ==
    IF arr = << >> THEN << >>
    ELSE IF searchMatches(objs[Head(arr)], q)
         THEN <<Head(arr)>> \o filterRows(Tail(arr), objs, q)
         ELSE filterRows(Tail(arr), objs, q)

\* Spread as plain assignment: the same array object under a second name.
Spread_alias(arr) == [elems |-> arr, same |-> TRUE]

\* [...arr]: a new array object holding the elements of arr.
Spread(arr) == [elems |-> arr, same |-> FALSE]

\* searchQuery without trim().
searchQuery_noTrim(text) == toLowerCase(text)

\* The query applySearch reads from the search box.
searchQuery(text) == toLowerCase(trim(text))

\* The array applySearch assigns to VIEW before it re-applies the sort.
searchView(data, objs, text) ==
    IF searchQuery(text) = << >>
    THEN Spread(data)
    ELSE [elems |-> filterRows(data, objs, searchQuery(text)), same |-> FALSE]

compareBy(key, a, b) ==
    CASE key = "score"            -> toNum(a.score) - toNum(b.score)
      [] key = "reviewed"         -> toBoolNum(a.reviewed) - toBoolNum(b.reviewed)
      [] key = "source"           -> localeCompare(toStr(getSourceLabel(a.source)),
                                                   toStr(getSourceLabel(b.source)))
      [] key = "title"            -> localeCompare(toStr(a.title), toStr(b.title))
      [] key = "buyer"            -> localeCompare(toStr(a.buyer), toStr(b.buyer))
      [] key = "amount_clp"       -> toNum(a.amount_clp) - toNum(b.amount_clp)
      [] key = "published_at"     -> toDateNum(a.published_at) - toDateNum(b.published_at)
      [] key = "questions_end_at" -> toDateNum(a.questions_end_at) - toDateNum(b.questions_end_at)
      [] key = "close_at"         -> toDateNum(a.close_at) - toDateNum(b.close_at)
      [] OTHER                    -> 0

\* sortComparator with the direction applied to the tie-break chain as well.
sortComparator_dirTies(key, dir, a, b) ==
    LET mult == IF dir = "asc" THEN 1 ELSE -1
        d    == compareBy(key, a, b)
        d2   == toNum(a.score) - toNum(b.score)
        d3   == toDateNum(a.published_at) - toDateNum(b.published_at)
    IN  IF d # 0 THEN mult * d
        ELSE IF d2 # 0 THEN mult * d2
        ELSE IF d3 # 0 THEN mult * d3
        ELSE mult * localeCompare(toStr(a.id), toStr(b.id))

\* The comparator applySort hands to VIEW.sort.
sortComparator(key, dir, a, b) ==
    LET mult == IF dir = "asc" THEN 1 ELSE -1
        d    == compareBy(key, a, b)
        d2   == toNum(a.score) - toNum(b.score)
        d3   == toDateNum(a.published_at) - toDateNum(b.published_at)
    IN  IF d # 0 THEN mult * d
        ELSE IF d2 # 0 THEN -d2
        ELSE IF d3 # 0 THEN -d3
        ELSE localeCompare(toStr(a.id), toStr(b.id))

\* Array.prototype.sort: the stable sort of arr under the comparator (rows
\* that compare equal keep the order they had in arr).
RECURSIVE ArraySort(_, _, _, _)
ArraySort(arr, objs, key, dir) ==
    IF arr = << >> THEN << >>
    ELSE LET n      == Len(arr)
             x      == arr[n]
             sorted == ArraySort(SubSeq(arr, 1, n - 1), objs, key, dir)
             pos    == Cardinality({ i \in DOMAIN sorted :
                           sortComparator(key, dir, objs[sorted[i]], objs[x]) <= 0 })
         IN  SubSeq(sorted, 1, pos) \o <<x>> \o SubSeq(sorted, pos + 1, n - 1)

\* keys of setupSorting, in the order of the header cells; "" is the null of
\* the action column.
keys ==
    <<"score", "reviewed", "source", "title", "buyer", "amount_clp",
      "published_at", "questions_end_at", "close_at", "">>

SortKeys == { keys[i] : i \in DOMAIN keys } \ {""}

\* nextDir that toggles whatever column was sorted before.
nextDir_anyColumn(sort, key) ==
    IF sort.dir = "desc" THEN "asc" ELSE "desc"

\* The direction the click handler of column key asks for.
nextDir(sort, key) ==
    LET isSame == sort.key = key
    IN  IF isSame /\ sort.dir = "desc" THEN "asc" ELSE "desc"

-----------------------------------------------------------------------------
(* Conteos (header) and Render *)

\* x ?? d on an optional number.
Coalesce(x, d) == IF x = << >> THEN d ELSE x[1]

\* computeCounts that never reads total_current from the metadata.
computeCounts_sumOnly(allRows, viewRows, metaCounts) ==
    LET allLic  == { i \in DOMAIN allRows : allRows[i].source # "compra_agil" }
        allCA   == { i \in DOMAIN allRows : allRows[i].source = "compra_agil" }
        viewLic == { i \in DOMAIN viewRows : viewRows[i].source # "compra_agil" }
        viewCA  == { i \in DOMAIN viewRows : viewRows[i].source = "compra_agil" }
        reviewedLicAll == Cardinality({ i \in allLic : allRows[i].reviewed = TRUE })
        reviewedCAAll  == Cardinality({ i \in allCA : allRows[i].reviewed = TRUE })
        licTotal    == Coalesce(metaCounts.licitaciones_total, Cardinality(allLic))
        caTotal     == Coalesce(metaCounts.compra_agil_total, Cardinality(allCA))
        shownLic    == Cardinality(viewLic)
        shownCA     == Cardinality(viewCA)
        licReviewed == reviewedLicAll
        caReviewed  == reviewedCAAll
    IN  [totals         |-> [lic |-> licTotal, ca |-> caTotal],
         shown          |-> [lic |-> shownLic, ca |-> shownCA],
         reviewed       |-> [lic |-> licReviewed, ca |-> caReviewed],
         reviewed_total |-> licReviewed + caReviewed,
         shown_total    |-> shownLic + shownCA,
         total_current  |-> licTotal + caTotal]

computeCounts(allRows, viewRows, metaCounts) ==
    LET allLic  == { i \in DOMAIN allRows : allRows[i].source # "compra_agil" }
        allCA   == { i \in DOMAIN allRows : allRows[i].source = "compra_agil" }
        viewLic == { i \in DOMAIN viewRows : viewRows[i].source # "compra_agil" }
        viewCA  == { i \in DOMAIN viewRows : viewRows[i].source = "compra_agil" }
        reviewedLicAll == Cardinality({ i \in allLic : allRows[i].reviewed = TRUE })
        reviewedCAAll  == Cardinality({ i \in allCA : allRows[i].reviewed = TRUE })
        licTotal    == Coalesce(metaCounts.licitaciones_total, Cardinality(allLic))
        caTotal     == Coalesce(metaCounts.compra_agil_total, Cardinality(allCA))
        shownLic    == Cardinality(viewLic)
        shownCA     == Cardinality(viewCA)
        licReviewed == reviewedLicAll
        caReviewed  == reviewedCAAll
    IN  [totals         |-> [lic |-> licTotal, ca |-> caTotal],
         shown          |-> [lic |-> shownLic, ca |-> shownCA],
         reviewed       |-> [lic |-> licReviewed, ca |-> caReviewed],
         reviewed_total |-> licReviewed + caReviewed,
         shown_total    |-> shownLic + shownCA,
         total_current  |-> Coalesce(metaCounts.total_current, licTotal + caTotal)]

\* The row objects an array of references points at.
RowsOf(arr, objs) == [i \in DOMAIN arr |-> objs[arr[i]]]

NoCounts ==
    [licitaciones_total |-> << >>, compra_agil_total |-> << >>, total_current |-> << >>]

\* renderHeader: the numbers written into #counts (META?.counts || {}).
renderHeader(meta, data, view, objs) ==
    LET c == IF meta = << >> THEN NoCounts ELSE meta[1].counts
    IN  <<computeCounts(RowsOf(data, objs), RowsOf(view, objs), c)>>

\* One <tr> of renderTable, by the text of its cells.
renderRow(o) ==
    [score    |-> o.score,
     reviewed |-> IF o.reviewed THEN "Si" ELSE "No",
     source   |-> getSourceLabel(o.source),
     title    |-> o.title,
     id       |-> o.id,
     buyer    |-> IF o.buyer = << >> THEN <<"-">> ELSE o.buyer]

\* renderTable: #tbody emptied, then one <tr> per row, in order.
renderTable(rows) ==
    [kind |-> "rows", rows |-> [i \in DOMAIN rows |-> renderRow(rows[i])], msg |-> << >>]

\* The error row of main().catch: a single row carrying err.message.
renderError(msg) == [kind |-> "error", rows |-> << >>, msg |-> msg]

\* err.message of loadJSON's Error for a response that is not ok.
fetchErrorMessage(path, status) == <<"Fetch failed", path, status>>

\* err.message of the SyntaxError r.json() rejects with.
parseErrorMessage(path) == <<"SyntaxError", path, 0>>

-----------------------------------------------------------------------------
(* State after the script has run to the first await of main() *)

MetaPath == "data/meta.json"
OppsPath == "data/opportunities.json"

Init ==
    /\ pc = "await_meta"
    /\ fetches = <<MetaPath>>
    /\ META = << >>
    /\ OBJ = << >>
    /\ DATA = << >>
    /\ VIEW = << >>
    /\ sameArray = FALSE
    /\ SORT = [key |-> "score", dir |-> "desc"]
    /\ searchText = << >>
    /\ sortListeners = FALSE
    /\ searchListener = FALSE
    /\ tbody = [kind |-> "initial", rows |-> << >>, msg |-> << >>]
    /\ header = << >>
    /\ lastEvent = [type |-> "none", col |-> 0]

\* main().catch: the error row replaces the table body; nothing else changes.
mainCatch(msg) ==
    /\ pc' = "failed"
    /\ tbody' = renderError(msg)
    /\ lastEvent' = [type |-> "error", col |-> 0]

\* LoadMetaOk with setupSorting() called between the two awaits.
LoadMetaOk_earlySetup(m) ==
    /\ pc = "await_meta"
    /\ META' = <<[counts |-> m]>>
    /\ fetches' = Append(fetches, OppsPath)
    /\ pc' = "await_opps"
    /\ sortListeners' = TRUE
    /\ lastEvent' = [type |-> "meta", col |-> 0]
    /\ UNCHANGED <<OBJ, DATA, VIEW, sameArray, SORT, searchText,
                   searchListener, tbody, header>>

\* loadJSON("data/meta.json") resolves: META is set and the second fetch is issued.
LoadMetaOk(m) ==
    /\ pc = "await_meta"
    /\ META' = <<[counts |-> m]>>
    /\ fetches' = Append(fetches, OppsPath)
    /\ pc' = "await_opps"
    /\ lastEvent' = [type |-> "meta", col |-> 0]
    /\ UNCHANGED <<OBJ, DATA, VIEW, sameArray, SORT, searchText, sortListeners,
                   searchListener, tbody, header>>

\* loadJSON("data/meta.json") throws: main() rejects at its first line.
LoadMetaFail(msg) ==
    /\ pc = "await_meta"
    /\ mainCatch(msg)
    /\ UNCHANGED <<fetches, META, OBJ, DATA, VIEW, sameArray, SORT, searchText,
                   sortListeners, searchListener, header>>

\* loadJSON("data/opportunities.json") resolves: the rest of main() runs to
\* its end without suspending.
LoadOppsOk(p) ==
    LET data   == [i \in DOMAIN p |-> i]
        copy   == Spread(data)
        sorted == ArraySort(copy.elems, p, "score", "desc")
    IN  /\ pc = "await_opps"
        /\ OBJ' = p
        /\ DATA' = IF copy.same THEN sorted ELSE data
        /\ VIEW' = sorted
        /\ sameArray' = copy.same
        /\ sortListeners' = TRUE
        /\ SORT' = [key |-> "score", dir |-> "desc"]
        /\ header' = renderHeader(META, DATA', VIEW', OBJ')
        /\ tbody' = renderTable(RowsOf(VIEW', OBJ'))
        /\ searchListener' = TRUE
        /\ pc' = "ready"
        /\ lastEvent' = [type |-> "load", col |-> 0]
        /\ UNCHANGED <<fetches, META, searchText>>

\* loadJSON("data/opportunities.json") throws: main() rejects at its second line.
LoadOppsFail(msg) ==
    /\ pc = "await_opps"
    /\ mainCatch(msg)
    /\ UNCHANGED <<fetches, META, OBJ, DATA, VIEW, sameArray, SORT, searchText,
                   sortListeners, searchListener, header>>

\* applySort(key, dir, rerender): SORT is replaced and VIEW sorted in place,
\* which also reorders DATA when both name the same array.
applySort(view, same, key, dir, rerender) ==
    /\ SORT' = [key |-> key, dir |-> dir]
    /\ VIEW' = ArraySort(view, OBJ, key, dir)
    /\ sameArray' = same
    /\ DATA' = IF same THEN VIEW' ELSE DATA
    /\ IF rerender
       THEN /\ header' = renderHeader(META, DATA', VIEW', OBJ)
            /\ tbody' = renderTable(RowsOf(VIEW', OBJ))
       ELSE TRUE

\* SearchInput without the applySort call that follows the filter.
SearchInput_noResort(t) ==
    LET v == searchView(DATA, OBJ, t)
    IN  /\ searchListener
        /\ searchText' = t
        /\ VIEW' = v.elems
        /\ sameArray' = v.same
        /\ UNCHANGED <<DATA, SORT>>
        /\ header' = renderHeader(META, DATA', VIEW', OBJ)
        /\ tbody' = renderTable(RowsOf(VIEW', OBJ))
        /\ lastEvent' = [type |-> "search", col |-> 0]
        /\ UNCHANGED <<pc, fetches, META, OBJ, sortListeners, searchListener>>

\* The user changes the search box to t and the input listener runs applySearch.
SearchInput(t) ==
    LET v == searchView(DATA, OBJ, t)
    IN  /\ searchListener
        /\ searchText' = t
        /\ applySort(v.elems, v.same, SORT.key, SORT.dir, FALSE)
        /\ header' = renderHeader(META, DATA', VIEW', OBJ)
        /\ tbody' = renderTable(RowsOf(VIEW', OBJ))
        /\ lastEvent' = [type |-> "search", col |-> 0]
        /\ UNCHANGED <<pc, fetches, META, OBJ, sortListeners, searchListener>>

\* The user changes the search box to t while no input listener is attached.
TypeUnheard(t) ==
    /\ ~searchListener
    /\ searchText' = t
    /\ lastEvent' = [type |-> "type", col |-> 0]
    /\ UNCHANGED <<pc, fetches, META, OBJ, DATA, VIEW, sameArray, SORT,
                   sortListeners, searchListener, tbody, header>>

\* HeaderClick calling applySort with rerender = false.
HeaderClick_noRender(idx) ==
    /\ sortListeners
    /\ keys[idx] # ""
    /\ applySort(VIEW, sameArray, keys[idx], nextDir(SORT, keys[idx]), FALSE)
    /\ lastEvent' = [type |-> "click", col |-> idx]
    /\ UNCHANGED <<pc, fetches, META, OBJ, searchText, sortListeners, searchListener,
                   tbody, header>>

\* A click on header cell idx that carries the listener of setupSorting.
HeaderClick(idx) ==
    /\ sortListeners
    /\ keys[idx] # ""
    /\ applySort(VIEW, sameArray, keys[idx], nextDir(SORT, keys[idx]), TRUE)
    /\ lastEvent' = [type |-> "click", col |-> idx]
    /\ UNCHANGED <<pc, fetches, META, OBJ, searchText, sortListeners, searchListener>>

\* A click on a header cell without listener: the action column, or any
\* column before setupSorting has run.
HeaderClickInert(idx) ==
    /\ ~sortListeners \/ keys[idx] = ""
    /\ lastEvent' = [type |-> "click", col |-> idx]
    /\ UNCHANGED <<pc, fetches, META, OBJ, DATA, VIEW, sameArray, SORT, searchText,
                   sortListeners, searchListener, tbody, header>>

Next ==
    \/ LoadMetaOk(NoCounts)
    \/ \E st \in FailStatuses : LoadMetaFail(fetchErrorMessage(MetaPath, st))
    \/ LoadMetaFail(parseErrorMessage(MetaPath))
    \/ pc = "await_opps" /\ \E p \in Payloads : LoadOppsOk(p)
    \/ \E st \in FailStatuses : LoadOppsFail(fetchErrorMessage(OppsPath, st))
    \/ LoadOppsFail(parseErrorMessage(OppsPath))
    \/ \E t \in Texts : SearchInput(t)
    \/ \E t \in Texts : TypeUnheard(t)
    \/ \E idx \in DOMAIN keys : HeaderClick(idx)
    \/ \E idx \in DOMAIN keys : HeaderClickInert(idx)

Spec == Init /\ [][Next]_vars

\* The header counts over every metadata object: startup and searches only,
\* since sorting changes none of the counts.
NextCounts ==
    \/ \E m \in Metas : LoadMetaOk(m)
    \/ pc = "await_opps" /\ \E p \in Payloads : LoadOppsOk(p)
    \/ \E t \in Texts : SearchInput(t)

SpecCounts == Init /\ [][NextCounts]_vars

-----------------------------------------------------------------------------
(* Vocabulary of the properties *)

Ready == pc = "ready"

ViewSet == { VIEW[i] : i \in DOMAIN VIEW }

DataSet == { DATA[i] : i \in DOMAIN DATA }

IndexIn(arr, r) == CHOOSE i \in DOMAIN arr : arr[i] = r

Reverse(arr) == [i \in DOMAIN arr |-> arr[Len(arr) + 1 - i]]

InitialSort == [key |-> "score", dir |-> "desc"]

\* The event handled last was a click on header cell idx.
Clicked(idx) == lastEvent.type = "click" /\ lastEvent.col = idx

\* The event handled last was an input event of the search box.
Searched == lastEvent.type = "search"

\* Rows r1 and r2 compare exactly equal on the sort key.
PrimaryTie(key, r1, r2) == compareBy(key, OBJ[r1], OBJ[r2]) = 0

\* The tie-break chain puts a strictly before b: higher score, then later
\* published date, then smaller case-folded id.
ChainBefore(a, b) ==
    \/ toNum(a.score) > toNum(b.score)
    \/ /\ toNum(a.score) = toNum(b.score)
       /\ \/ toDateNum(a.published_at) > toDateNum(b.published_at)
          \/ /\ toDateNum(a.published_at) = toDateNum(b.published_at)
             /\ localeCompare(toLowerCase(a.id), toLowerCase(b.id)) < 0

\* Row a may stand before row b under sort (key, dir) with the tie-break chain.
MayPrecede(key, dir, a, b) ==
    LET d == compareBy(key, a, b)
    IN  \/ (dir = "asc" /\ d < 0)
        \/ (dir # "asc" /\ d > 0)
        \/ (d = 0 /\ ~ChainBefore(b, a))

\* arr is ordered by (key, dir) and the tie-break chain.
Ordered(arr, key, dir) ==
    \A i, j \in DOMAIN arr :
        i < j => MayPrecede(key, dir, OBJ[arr[i]], OBJ[arr[j]])

\* id, title and buyer joined by single spaces, case-folded.
JoinedText(o) == toLowerCase(o.id \o <<" ">> \o o.title \o <<" ">> \o o.buyer)

\* id, title and buyer concatenated, case-folded.
ConcatText(o) == toLowerCase(o.id \o o.title \o o.buyer)

\* The search text, trimmed and case-folded.
Query(text) == toLowerCase(trim(text))

\* The rows of the dataset that match a search text (all rows when blank).
Matching(text) ==
    { r \in DataSet : Query(text) = << >> \/ includes(JoinedText(OBJ[r]), Query(text)) }

-----------------------------------------------------------------------------
(* C1 *)

ExpectedSort(sort, k) ==
    [key |-> k, dir |-> IF sort = [key |-> k, dir |-> "desc"] THEN "asc" ELSE "desc"]

\* C1: the sort state starts as (score, desc) and stays so until the click
\* listeners exist; from then on a click on sortable column k sets it to
\* (k, asc) when it was (k, desc) and to (k, desc) otherwise; a click on the
\* action column and a search input event leave it unchanged.
C1_SortToggle ==
    /\ [](~sortListeners => SORT = InitialSort)
    /\ [][\A idx \in DOMAIN keys :
              /\ (sortListeners /\ Clicked(idx)') =>
                    IF keys[idx] = ""
                    THEN SORT' = SORT
                    ELSE SORT' = ExpectedSort(SORT, keys[idx])
              /\ Searched' => SORT' = SORT]_vars

\* A second click on the title column has turned (title, desc) into (title, asc).
W_C1 == Ready /\ Clicked(4) /\ SORT = [key |-> "title", dir |-> "asc"]

-----------------------------------------------------------------------------
(* C2 *)

\* The step is a handled click on the column the view is already sorted by.
ToggleStep ==
    /\ Ready
    /\ lastEvent'.type = "click"
    /\ keys[lastEvent'.col] = SORT.key

\* C2: rows that compare equal on the sort key stand in the order of the
\* tie-break chain (higher score, later published date, smaller id first)
\* whatever the direction, and keep their relative order when the direction
\* is toggled; toggling the direction yields the exact reverse of the view
\* exactly when no two of its rows tie on the sort key.
C2_TieBreakFixed ==
    /\ [](Ready =>
            \A i, j \in DOMAIN VIEW :
                (i < j /\ PrimaryTie(SORT.key, VIEW[i], VIEW[j])) =>
                    ~ChainBefore(OBJ[VIEW[j]], OBJ[VIEW[i]]))
    /\ [][ToggleStep =>
              /\ \A x, y \in ViewSet :
                    PrimaryTie(SORT.key, x, y) =>
                        ((IndexIn(VIEW, x) < IndexIn(VIEW, y))
                            <=> (IndexIn(VIEW', x) < IndexIn(VIEW', y)))
              /\ (VIEW' = Reverse(VIEW))
                    <=> (\A x, y \in ViewSet : PrimaryTie(SORT.key, x, y) => x = y) ]_vars

\* Sorted ascending, with two rows tied on the key and on score whose order
\* the published date decides.
W_C2 ==
    /\ Ready
    /\ lastEvent.type = "click"
    /\ SORT.dir = "asc"
    /\ \E i, j \in DOMAIN VIEW :
          /\ i < j
          /\ PrimaryTie(SORT.key, VIEW[i], VIEW[j])
          /\ toNum(OBJ[VIEW[i]].score) = toNum(OBJ[VIEW[j]].score)
          /\ toDateNum(OBJ[VIEW[i]].published_at) > toDateNum(OBJ[VIEW[j]].published_at)

-----------------------------------------------------------------------------
(* C3 *)

\* The rows of the view in the order the dataset lists them.
ViewInDataOrder == SelectSeq(DATA, LAMBDA r : r \in ViewSet)

\* C3: the order of the view is a function of the rows in it and of the sort
\* state alone: it is the order a sort of those rows from their dataset order
\* gives, whatever clicks and searches came before.
C3_OrderDetermined ==
    Ready => VIEW = ArraySort(ViewInDataOrder, OBJ, SORT.key, SORT.dir)

-----------------------------------------------------------------------------
(* C4 *)

\* C4 (amended): after a search input event with a non-blank text, a row of
\* the dataset is in the view iff its id, title and buyer, joined by single
\* spaces and case-folded, contain the trimmed, case-folded text.
C4_SpaceJoinedMatch ==
    (Searched /\ Query(searchText) # << >>) =>
        \A r \in DataSet :
            (r \in ViewSet) <=> includes(JoinedText(OBJ[r]), Query(searchText))

\* C4 as stated: the match is against the plain concatenation id+title+buyer.
C4_PlainConcatMatch ==
    (Searched /\ Query(searchText) # << >>) =>
        \A r \in DataSet :
            (r \in ViewSet) <=> includes(ConcatText(OBJ[r]), Query(searchText))

\* A search that kept one row and dropped another.
W_C4 ==
    /\ Searched
    /\ Query(searchText) # << >>
    /\ ViewSet # {}
    /\ DataSet \ ViewSet # {}

-----------------------------------------------------------------------------
(* C5 *)

\* C5 (amended): after a search input event with a blank text the view is a
\* new array holding every row of the dataset once, ordered by the current
\* sort state; rows keep their dataset order only where the comparator
\* ties them.
C5_BlankSearchResorts ==
    (Searched /\ Query(searchText) = << >>) =>
        /\ ~sameArray
        /\ Len(VIEW) = Len(DATA)
        /\ ViewSet = DataSet
        /\ Ordered(VIEW, SORT.key, SORT.dir)
        /\ \A x, y \in DataSet :
              (/\ IndexIn(DATA, x) < IndexIn(DATA, y)
               /\ MayPrecede(SORT.key, SORT.dir, OBJ[x], OBJ[y])
               /\ MayPrecede(SORT.key, SORT.dir, OBJ[y], OBJ[x]))
                  => IndexIn(VIEW, x) < IndexIn(VIEW, y)

\* C5 as stated: the view has the rows in the order of the loaded list.
C5_BlankSearchKeepsOrder ==
    (Searched /\ Query(searchText) = << >>) => (~sameArray /\ VIEW = DATA)

\* A white-space-only search over three rows that the sort put in another order.
W_C5 ==
    /\ Searched
    /\ searchText = <<" ">>
    /\ Len(DATA) = 3
    /\ VIEW # DATA

-----------------------------------------------------------------------------
(* C6 *)

\* C6: once loaded, the dataset array and the row objects never change, and
\* the view is always an array of its own.
C6_DataImmutable ==
    /\ [](~sameArray)
    /\ [][Ready => (DATA' = DATA /\ OBJ' = OBJ)]_vars

\* A click after a search: the view is filtered and in another order than
\* the dataset.
W_C6 ==
    /\ Ready
    /\ lastEvent.type = "click"
    /\ Len(DATA) = 3
    /\ Len(VIEW) = 2
    /\ VIEW[1] > VIEW[2]

-----------------------------------------------------------------------------
(* C7 *)

IsCompraAgil(r) == OBJ[r].source = "compra_agil"

MetaCounts == IF META = << >> THEN NoCounts ELSE META[1].counts

\* The per-category totals reported with the grand total: the metadata value
\* when present, else the count in the full dataset.
TotalsAsClaimed(cc) ==
    /\ cc.totals.lic =
          IF MetaCounts.licitaciones_total # << >>
          THEN MetaCounts.licitaciones_total[1]
          ELSE Cardinality({ i \in DOMAIN DATA : ~IsCompraAgil(DATA[i]) })
    /\ cc.totals.ca =
          IF MetaCounts.compra_agil_total # << >>
          THEN MetaCounts.compra_agil_total[1]
          ELSE Cardinality({ i \in DOMAIN DATA : IsCompraAgil(DATA[i]) })

\* C7 (amended): shown and reviewed grand totals are the sums of their two
\* per-category values; the total of active rows is the metadata's
\* total_current when present and only otherwise the sum of the two
\* per-category totals.
C7_GrandTotals ==
    header # << >> =>
        LET cc == header[1]
        IN  /\ TotalsAsClaimed(cc)
            /\ cc.shown_total = cc.shown.lic + cc.shown.ca
            /\ cc.reviewed_total = cc.reviewed.lic + cc.reviewed.ca
            /\ cc.total_current =
                  IF MetaCounts.total_current # << >>
                  THEN MetaCounts.total_current[1]
                  ELSE cc.totals.lic + cc.totals.ca

\* C7 as stated: each of the three grand totals is the sum of its two
\* per-category values.
C7_AllTotalsAreSums ==
    header # << >> =>
        LET cc == header[1]
        IN  /\ TotalsAsClaimed(cc)
            /\ cc.shown_total = cc.shown.lic + cc.shown.ca
            /\ cc.reviewed_total = cc.reviewed.lic + cc.reviewed.ca
            /\ cc.total_current = cc.totals.lic + cc.totals.ca

\* A header computed after a filtering search, with total_current supplied
\* and the per-category total of Licitaciones counted from the dataset.
W_C7 ==
    /\ header # << >>
    /\ Searched
    /\ Len(VIEW) < Len(DATA)
    /\ MetaCounts.total_current # << >>
    /\ MetaCounts.licitaciones_total = << >>

-----------------------------------------------------------------------------
(* C8 *)

\* The messages a failed load of path may leave in the error row.
LoadErrors(path) ==
    { fetchErrorMessage(path, st) : st \in FailStatuses } \cup { parseErrorMessage(path) }

\* No listener is attached and nothing of the page has been rendered.
NothingShown ==
    /\ header = << >>
    /\ ~sortListeners
    /\ ~searchListener

\* C8: a failed fetch ends startup with exactly the error row carrying its
\* message, no header, no listener and no further fetch (none at all of the
\* opportunities when the metadata failed), and no later event changes the
\* page; while a fetch is pending nothing is shown; otherwise startup ends
\* with header and table rendered and both listeners attached.
C8_AllOrNothingStartup ==
    /\ [](/\ lastEvent.type = "error" => pc = "failed"
          /\ pc = "failed" =>
                /\ tbody.kind = "error"
                /\ tbody.msg \in LoadErrors(IF META = << >> THEN MetaPath ELSE OppsPath)
                /\ NothingShown
                /\ fetches = IF META = << >> THEN <<MetaPath>> ELSE <<MetaPath, OppsPath>>
          /\ pc \in {"await_meta", "await_opps"} =>
                /\ tbody.kind = "initial"
                /\ NothingShown
          /\ pc = "ready" =>
                /\ header # << >>
                /\ tbody.kind = "rows"
                /\ sortListeners
                /\ searchListener
                /\ fetches = <<MetaPath, OppsPath>>)
    /\ [][pc = "failed" =>
              /\ pc' = "failed"
              /\ tbody' = tbody
              /\ header' = header
              /\ fetches' = fetches
              /\ sortListeners' = sortListeners
              /\ searchListener' = searchListener]_vars

\* The opportunities fetch failed and the user has clicked a header since.
W_C8 ==
    /\ pc = "failed"
    /\ META # << >>
    /\ lastEvent.type = "click"
    /\ tbody.kind = "error"

-----------------------------------------------------------------------------
(* C9 *)

\* The ids shown in the table, top to bottom.
ShownIds == [i \in DOMAIN tbody.rows |-> tbody.rows[i].id]

\* The dataset of scores [5,2,5], sources [default, special, default] and
\* ids [b,a,c], without published dates.
IsScenario ==
    /\ Len(OBJ) = 3
    /\ [i \in 1..3 |-> OBJ[i].id] = << <<"b">>, <<"a">>, <<"c">> >>
    /\ [i \in 1..3 |-> OBJ[i].score] = << <<5>>, <<2>>, <<5>> >>
    /\ [i \in 1..3 |-> OBJ[i].source = "compra_agil"] = <<FALSE, TRUE, FALSE>>
    /\ \A i \in 1..3 : OBJ[i].published_at = << >>

\* C9: after startup and after every handled event the table shows exactly
\* the rows of the view, in its order, and the view is ordered by the current
\* sort state with the tie-break chain; right after startup the sort is
\* (score, desc), which shows the scenario dataset as b, c, a.
C9_TableShowsSortedView ==
    Ready =>
        /\ tbody.kind = "rows"
        /\ Len(tbody.rows) = Len(VIEW)
        /\ \A i \in DOMAIN VIEW :
              /\ tbody.rows[i].id = OBJ[VIEW[i]].id
              /\ tbody.rows[i].title = OBJ[VIEW[i]].title
              /\ tbody.rows[i].score = OBJ[VIEW[i]].score
        /\ Ordered(VIEW, SORT.key, SORT.dir)
        /\ lastEvent.type = "load" => SORT = InitialSort
        /\ (lastEvent.type = "load" /\ IsScenario) =>
              ShownIds = << <<"b">>, <<"c">>, <<"a">> >>

\* The scenario dataset right after startup.
W_C9 ==
    /\ Ready
    /\ lastEvent.type = "load"
    /\ IsScenario
    /\ ShownIds = << <<"b">>, <<"c">>, <<"a">> >>

-----------------------------------------------------------------------------
(* C10 *)

\* C10 (amended): startup puts every row of the dataset in the view,
\* whatever the search box holds; a handled input event makes the view the
\* rows that match the text of the box; a header click changes neither the
\* text nor the rows in the view.
C10_ViewFollowsHandledInput ==
    /\ [](Ready =>
            /\ Len(VIEW) = Cardinality(ViewSet)
            /\ lastEvent.type = "load" => ViewSet = DataSet
            /\ Searched => ViewSet = Matching(searchText))
    /\ [][(Ready /\ lastEvent'.type = "click") =>
              (ViewSet' = ViewSet /\ searchText' = searchText)]_vars

\* C10 as stated: whenever startup has succeeded the view holds the rows
\* that match the text in the search box.
C10_ViewMatchesSearchBox ==
    Ready => ViewSet = Matching(searchText)

\* Startup has finished with a text in the box, typed while the fetches were
\* pending, that some row of the view does not match.
W_C10 ==
    /\ Ready
    /\ lastEvent.type = "load"
    /\ Query(searchText) # << >>
    /\ ViewSet = DataSet
    /\ ViewSet \ Matching(searchText) # {}

=============================================================================
